---- MODULE Spec2Model ----
(***************************************************************************)
(* Authorization decision subsystem of the corredephd blog platform:       *)
(* the client permission helpers (src/utils/userProfile.ts), the pages     *)
(* that use them, and the production Firestore security rules              *)
(* (FIRESTORE_RULES.md) evaluated by the document store on every write.    *)
(***************************************************************************)
EXTENDS Integers, FiniteSets, Sequences, TLC

\* ------------------------------------------------------------------ bounds
NumUsers == 2
NumPosts == 1
NumComments == 1
\* createUserProfile calls followed in one run of SpecSignIn
MaxCalls == 2

\* --------------------------------------------------------------- universes
\* no principal: auth.currentUser === null / request.auth == null
Null == 0
\* no document at the path: snapshot.exists() is false
Absent == -1
\* users/{uid} has no document, so there is no profile field
NoProfile == "none"
\* profile?.profile when getUserProfile returned null
NoRole == "undefined"

Uids == 1..NumUsers
PostIds == 1..NumPosts
CommentIds == 1..NumComments
UserRole == {"admin", "editor", "author", "contributor", "subscriber"}
Principals == Uids \cup {Null}

\* the actions of the rule table
ActionKinds == {"CreatePost", "EditPost", "DeletePost", "ModerateComment",
                "CreateComment", "WriteSiteConfig"}

VARIABLES
    users,          \* users/{uid}.profile, or NoProfile
    posts,          \* posts/{postId}.authorId, or Absent
    comments,       \* comments/{commentId}.authorId, or Absent
    siteUpdatedBy,  \* site/settings.updatedBy, or Null when never written
    authUser,       \* auth.currentUser of the browser session of a page
    settingsPage,   \* React state of the SiteSettings page
    commentsPage,   \* React state of the Comments component
    homePage,       \* React state of the Home page
    detailPage,     \* React state of the PostDetail page
    editPage,       \* React state of the EditPost page
    userFields,     \* users/{uid}: uid, displayName and createdAt
    siteFields,     \* site/settings: whether it exists, siteTitle and theme
    calls,          \* the createUserProfile or updateSiteSettings calls in flight
    now,            \* Timestamp.now()
    last            \* the last decision taken: who asked what, and the answer

vars == <<users, posts, comments, siteUpdatedBy, authUser,
          settingsPage, commentsPage, homePage, detailPage, editPage,
          userFields, siteFields, calls, now, last>>

storeVars == <<users, posts, comments, siteUpdatedBy>>
routeVars == <<homePage, detailPage, editPage>>
signInVars == <<userFields, siteFields, calls, now>>
pageVars == <<authUser, settingsPage, commentsPage, routeVars, signInVars>>

Decision(by, op, uid, target, allowed) ==
    [by |-> by, op |-> op, uid |-> uid, target |-> target, allowed |-> allowed]

\* ------------------------------------------- FIRESTORE_RULES.md, production
\* get(/databases/.../users/$(request.auth.uid)).data.profile in roles; the
\* lookup of a missing document is an evaluation error and the rule is false
rulesRoleIn_missingAsAuthor(uid, roles) ==
    IF users[uid] = NoProfile THEN "author" \in roles ELSE users[uid] \in roles

rulesRoleIn(uid, roles) ==
    /\ users[uid] # NoProfile
    /\ users[uid] \in roles

rulesIsAdmin(uid) ==
    uid # Null /\ rulesRoleIn(uid, {"admin"})

allowPostCreate(uid) ==
    uid # Null /\ rulesRoleIn(uid, {"admin", "editor", "author"})

allowPostUpdateDelete_anyOwner(uid, p) ==
    uid # Null /\ ( \/ rulesRoleIn(uid, {"admin", "editor"})
                    \/ rulesRoleIn(uid, {"author", "contributor"}) )

allowPostUpdateDelete(uid, p) ==
    uid # Null /\ ( \/ rulesRoleIn(uid, {"admin", "editor"})
                    \/ ( /\ rulesRoleIn(uid, {"author", "contributor"})
                         /\ posts[p] = uid ) )

\* match /posts/{postId}: allow read: if true
allowPostRead(uid) ==
    TRUE

allowCommentCreate_anyone(uid) ==
    TRUE

allowCommentCreate(uid) ==
    uid # Null

allowCommentUpdate_ownerOrModerator(uid, c) ==
    uid # Null /\ (comments[c] = uid \/ rulesRoleIn(uid, {"admin", "editor"}))

\* match /comments/{commentId} has read, create and delete statements and no
\* `allow update`: a request no statement allows is denied
allowCommentUpdate(uid, c) ==
    FALSE

allowCommentDelete(uid) ==
    uid # Null /\ rulesRoleIn(uid, {"admin", "editor"})

allowUserWrite(uid, userId) ==
    uid # Null /\ uid = userId

allowSiteWrite(uid) ==
    rulesIsAdmin(uid)

\* the storage decision for an action of the rule table on post p
evaluateStorage(uid, action, p) ==
    CASE action = "CreatePost" -> allowPostCreate(uid)
      [] action = "EditPost" -> allowPostUpdateDelete(uid, p)
      [] action = "DeletePost" -> allowPostUpdateDelete(uid, p)
      [] action = "ModerateComment" -> allowCommentDelete(uid)
      [] action = "CreateComment" -> allowCommentCreate(uid)
      [] action = "WriteSiteConfig" -> allowSiteWrite(uid)

\* ------------------------------------------------ src/utils/userProfile.ts
\* the role of the profile read, NoRole when the document does not exist or
\* the read threw (ok = FALSE): the catch block returns null
getUserProfile_ignoresFailure(userId, ok) ==
    IF users[userId] # NoProfile THEN users[userId] ELSE NoRole

getUserProfile(userId, ok) ==
    IF ok /\ users[userId] # NoProfile THEN users[userId] ELSE NoRole

isEditor_editorOnly(userId, ok) ==
    getUserProfile(userId, ok) = "editor"

isEditor(userId, ok) ==
    LET role == getUserProfile(userId, ok)
    IN  role = "editor" \/ role = "admin"

isAdmin_ignoresFailure(userId, ok) ==
    users[userId] = "admin"

isAdmin(userId, ok) ==
    getUserProfile(userId, ok) = "admin"

canCreatePosts_withContributor(userId, ok) ==
    LET role == getUserProfile(userId, ok)
    IN  role = "admin" \/ role = "editor" \/ role = "author"
          \/ role = "contributor"

canCreatePosts(userId, ok) ==
    LET role == getUserProfile(userId, ok)
    IN  role = "admin" \/ role = "editor" \/ role = "author"

canEditAnyPost_withAuthor(userId, ok) ==
    LET role == getUserProfile(userId, ok)
    IN  role = "admin" \/ role = "editor" \/ role = "author"

canEditAnyPost(userId, ok) ==
    LET role == getUserProfile(userId, ok)
    IN  role = "admin" \/ role = "editor"

canEditOwnPosts_anyProfile(userId, ok) ==
    getUserProfile(userId, ok) # NoRole

canEditOwnPosts_noContributor(userId, ok) ==
    LET role == getUserProfile(userId, ok)
    IN  role = "admin" \/ role = "editor" \/ role = "author"

canEditOwnPosts_authorsOnly(userId, ok) ==
    LET role == getUserProfile(userId, ok)
    IN  role = "author" \/ role = "contributor"

canEditOwnPosts(userId, ok) ==
    LET role == getUserProfile(userId, ok)
    IN  role = "admin" \/ role = "editor" \/ role = "author"
          \/ role = "contributor"

canModerateComments(userId, ok) ==
    LET role == getUserProfile(userId, ok)
    IN  role = "admin" \/ role = "editor"

\* getUserRole: profile?.profile || null
getUserRole(userId, ok) == getUserProfile(userId, ok)

\* PostDetail.checkPermissions: canEditAny || (canEditOwn && isOwnPost),
\* computed only when both user and post are set
checkPermissions(uid, p, ok) ==
    /\ uid # Null
    /\ posts[p] # Absent
    /\ ( \/ canEditAnyPost(uid, ok)
         \/ (canEditOwnPosts(uid, ok) /\ uid = posts[p]) )

\* canEditAny || (canEditOwn && isOwnPost) of PostDetail and EditPost, over
\* the authorId the page holds; each helper does its own profile read
userCanEdit(uid, authorId, okAny, okOwn) ==
    \/ canEditAnyPost(uid, okAny)
    \/ (canEditOwnPosts(uid, okOwn) /\ uid = authorId)

\* the client decision built from the helpers, as the pages build it: every
\* page sets its flag to false for a null user and calls the helper otherwise
evaluateClient(uid, action, p, ok) ==
    CASE action = "CreatePost" -> uid # Null /\ canCreatePosts(uid, ok)
      [] action = "EditPost" -> checkPermissions(uid, p, ok)
      [] action = "DeletePost" -> checkPermissions(uid, p, ok)
      [] action = "ModerateComment" -> uid # Null /\ canModerateComments(uid, ok)
      [] action = "CreateComment" -> uid # Null
      [] action = "WriteSiteConfig" -> uid # Null /\ isAdmin(uid, ok)

\* ------------------------------------------------------------------- Init
NoDecision == Decision("none", "none", Null, 0, FALSE)

\* useState initial values of SiteSettings: user = auth.currentUser,
\* isAdminUser = false, settings = null; pending holds the principals whose
\* isAdmin call of the auth callback is in flight, flagFor the principal whose
\* result was last written to isAdminUser
SettingsPageState(mounted, user) ==
    [mounted |-> mounted, subscribed |-> FALSE, user |-> user,
     isAdminUser |-> FALSE, settings |-> FALSE, pending |-> {},
     flagFor |-> Null]

\* useState initial values of Comments: user = auth.currentUser,
\* canModerate = false
CommentsPageState(mounted, user) ==
    [mounted |-> mounted, subscribed |-> FALSE, user |-> user,
     canModerate |-> FALSE, pending |-> {}, flagFor |-> Null]

\* useState initial values of Home: user = auth.currentUser, canCreate =
\* isAdminUser = false, posts = [], loading = true; posts holds the authorId
\* of every post of the list, pending the principals whose permission reads
\* of the auth callback are in flight, flagFor the principal whose results
\* were last written to the flags and resolved how the reads of that
\* resolution ended
HomePageState(mounted, user) ==
    [mounted |-> mounted, subscribed |-> FALSE, user |-> user,
     canCreate |-> FALSE, isAdminUser |-> FALSE,
     posts |-> [p \in PostIds |-> Absent], loading |-> TRUE,
     pending |-> {}, flagFor |-> Null, resolved |-> "none"]

\* useState initial values of PostDetail at /post/:id: post = null,
\* loading = true, user = auth.currentUser, canEdit = false; post holds the
\* authorId of the loaded post, pending the (uid, authorId) pairs whose
\* checkPermissions is in flight, flagFor and flagAuthor the pair whose
\* result was last written to canEdit
DetailPageState(mounted, id, user) ==
    [mounted |-> mounted, id |-> id, subscribed |-> FALSE, user |-> user,
     post |-> Null, loading |-> TRUE, canEdit |-> FALSE,
     showDeleteDialog |-> FALSE,
     pending |-> {}, flagFor |-> Null, flagAuthor |-> Null]

\* useState initial values of EditPost at /edit-post/:id: loadingPost =
\* true, user = auth.currentUser, canEdit = false, postAuthorId = '' (Null),
\* checkingPermission = true; pending holds the (uid, postAuthorId) pairs of
\* the auth callbacks in flight, postAuthorId being the value the effect run
\* closed over; fetching is set while fetchPost awaits getDoc
EditPageState(mounted, id, user) ==
    [mounted |-> mounted, id |-> id, subscribed |-> FALSE, user |-> user,
     canEdit |-> FALSE, postAuthorId |-> Null, checkingPermission |-> TRUE,
     loadingPost |-> TRUE, fetching |-> FALSE,
     pending |-> {}, flagFor |-> Null, flagAuthor |-> Null]

\* a component that is not rendered holds no state
Closed == [mounted |-> FALSE]

\* none of Home, PostDetail and EditPost is open
RoutesIdle ==
    /\ homePage = Closed
    /\ detailPage = Closed
    /\ editPage = Closed

\* the fields of a users/{uid} document that was never written
NoFields == [uid |-> Null, displayName |-> "", createdAt |-> 0]

\* site/settings was never written: getSiteSettings returns null
NoSettings == [exists |-> FALSE, siteTitle |-> "", theme |-> ""]

\* no createUserProfile call is in flight and no display field is followed
SignInIdle ==
    /\ userFields = [u \in Uids |-> NoFields]
    /\ siteFields = NoSettings
    /\ calls = {}
    /\ now = 0

\* no page is open
PagesIdle ==
    /\ authUser = Null
    /\ settingsPage = Closed
    /\ commentsPage = Closed
    /\ RoutesIdle
    /\ SignInIdle

\* an empty database
Init ==
    /\ users = [u \in Uids |-> NoProfile]
    /\ posts = [p \in PostIds |-> Absent]
    /\ comments = [c \in CommentIds |-> Absent]
    /\ siteUpdatedBy = Null
    /\ PagesIdle
    /\ last = NoDecision

\* ------------------------------------------------- profile writes (users/)
\* createUserProfile(user, profile = 'subscriber'): setDoc with merge: true
\* writes every field of profileData, the profile field included; the
\* requester is the user that just signed in. This is the call as one step
\* and its effect on the role; SpecSignIn follows its steps and the other
\* fields of the document
createUserProfile(user, profile) ==
    /\ allowUserWrite(user, user)
    /\ users' = [users EXCEPT ![user] = profile]
    /\ last' = Decision("createUserProfile", "WriteProfile", user, user, TRUE)
    /\ UNCHANGED <<posts, comments, siteUpdatedBy, pageVars>>

\* any client's write of users/{userId} with a profile field in the payload
ReqWriteProfile(uid, userId, profile) ==
    LET ok == allowUserWrite(uid, userId)
    IN  /\ users' = IF ok THEN [users EXCEPT ![userId] = profile] ELSE users
        /\ last' = Decision("request", "WriteProfile", uid, userId, ok)
        /\ UNCHANGED <<posts, comments, siteUpdatedBy, pageVars>>

\* the Firebase Console edit of USER_PROFILES "Managing User Roles": it does
\* not pass through the security rules
AdminSetRole(userId, profile) ==
    /\ users[userId] # NoProfile
    /\ users[userId] # profile
    /\ users' = [users EXCEPT ![userId] = profile]
    /\ last' = Decision("console", "SetRole", Null, userId, TRUE)
    /\ UNCHANGED <<posts, comments, siteUpdatedBy, pageVars>>

\* ----------------------------------------------------- post writes (posts/)
\* an update as the rules receive it: request.auth.uid, and the fields of
\* request.resource.data a client may assert (authorId, Null when absent; a
\* profile field, NoRole when absent)
Request(uid, authorId, profile) ==
    [auth |-> uid, authorId |-> authorId, profile |-> profile]

\* a variant of the update/delete rule that believes the payload
evaluatePostWrite_trustsPayload(request, p) ==
    /\ request.auth # Null
    /\ \/ rulesRoleIn(request.auth, {"admin", "editor"})
       \/ request.profile \in {"admin", "editor"}
       \/ /\ rulesRoleIn(request.auth, {"author", "contributor"})
          /\ (posts[p] = request.auth \/ request.authorId = request.auth)

\* `allow update, delete` of match /posts/{postId} on a request: the rule
\* names request.auth, getUserRole() and resource.data.authorId (the stored
\* document); request.resource.data does not occur in it
evaluatePostWrite(request, p) == allowPostUpdateDelete(request.auth, p)

\* creation of posts/{p}; the payload's authorId is whatever the client sent
ReqCreatePost(uid, p, authorId) ==
    /\ posts[p] = Absent
    /\ LET ok == allowPostCreate(uid)
       IN  /\ posts' = IF ok THEN [posts EXCEPT ![p] = authorId] ELSE posts
           /\ last' = Decision("request", "CreatePost", uid, p, ok)
    /\ UNCHANGED <<users, comments, siteUpdatedBy, pageVars>>

\* update of an existing posts/{p}; authorId is the payload's authorId field,
\* Null when the payload has none (the field is then left as stored)
ReqUpdatePost(uid, p, authorId) ==
    /\ posts[p] # Absent
    /\ LET ok == evaluatePostWrite(Request(uid, authorId, NoRole), p)
       IN  /\ posts' = IF ok /\ authorId # Null
                        THEN [posts EXCEPT ![p] = authorId] ELSE posts
           /\ last' = Decision("request", "EditPost", uid, p, ok)
    /\ UNCHANGED <<users, comments, siteUpdatedBy, pageVars>>

\* deleteDoc(doc(db, 'posts', p)) as issued by `by`
DeletePost(by, uid, p) ==
    LET ok == allowPostUpdateDelete(uid, p)
    IN  /\ posts' = IF ok THEN [posts EXCEPT ![p] = Absent] ELSE posts
        /\ last' = Decision(by, "DeletePost", uid, p, ok)
        /\ UNCHANGED <<users, comments, siteUpdatedBy, pageVars>>

ReqDeletePost(uid, p) == DeletePost("request", uid, p)

\* Home.handleDeletePost(postId) in the session of principal uid: no check
handleDeletePost(uid, p) ==
    /\ posts[p] # Absent
    /\ DeletePost("handleDeletePost", uid, p)

\* PostDetail.handleConfirmDelete in the session of principal uid: no check
\* of canEdit, only of the route id
handleConfirmDelete(uid, p) ==
    /\ posts[p] # Absent
    /\ DeletePost("handleConfirmDelete", uid, p)

\* ------------------------------------------------------------ client guard
\* a page resolves a flag that depends on the role only (canCreate,
\* canModerate, isAdminUser, the comment form) for principal uid
ClientCheckRole(uid, action, ok) ==
    /\ action \notin {"EditPost", "DeletePost"}
    /\ last' = Decision("client", action, uid, 0,
                        evaluateClient(uid, action, 0, ok))
    /\ UNCHANGED <<storeVars, pageVars>>

\* a page resolves canEdit for principal uid and post p
ClientCheckPost(uid, action, p, ok) ==
    /\ action \in {"EditPost", "DeletePost"}
    /\ last' = Decision("client", action, uid, p,
                        evaluateClient(uid, action, p, ok))
    /\ UNCHANGED <<storeVars, pageVars>>

\* ------------------------------------------------------------------- Next
Next ==
    \/ \E u \in Uids : createUserProfile(u, "subscriber")
    \/ \E u \in Principals, t \in Uids, r \in UserRole : ReqWriteProfile(u, t, r)
    \/ \E t \in Uids, r \in UserRole : AdminSetRole(t, r)
    \/ \E u \in Principals, p \in PostIds, a \in Uids : ReqCreatePost(u, p, a)
    \/ \E u \in Principals, p \in PostIds, a \in Principals :
          ReqUpdatePost(u, p, a)
    \/ \E u \in Principals, p \in PostIds : ReqDeletePost(u, p)
    \/ \E u \in Principals, p \in PostIds : handleDeletePost(u, p)
    \/ \E u \in Principals, p \in PostIds : handleConfirmDelete(u, p)
    \/ \E u \in Principals, a \in ActionKinds : ClientCheckRole(u, a, TRUE)
    \/ \E u \in Principals, a \in ActionKinds, p \in PostIds :
          ClientCheckPost(u, a, p, TRUE)

Spec == Init /\ [][Next]_vars

TypeOK ==
    /\ users \in [Uids -> UserRole \cup {NoProfile}]
    /\ posts \in [PostIds -> Uids \cup {Absent}]
    /\ comments \in [CommentIds -> Uids \cup {Absent}]
    /\ siteUpdatedBy \in Principals
    /\ authUser \in Principals
    /\ last.allowed \in BOOLEAN

\* ===================================================== SiteSettings session
\* the page is opened in a browser session over some state of the store
InitSettings ==
    /\ users \in [Uids -> UserRole \cup {NoProfile}]
    /\ posts = [p \in PostIds |-> Absent]
    /\ comments = [c \in CommentIds |-> Absent]
    /\ siteUpdatedBy = Null
    /\ authUser \in Principals
    /\ settingsPage = SettingsPageState(TRUE, authUser)
    /\ commentsPage = Closed
    /\ RoutesIdle
    /\ SignInIdle
    /\ last = NoDecision

\* the onAuthStateChanged callback of SiteSettings up to its first await:
\* setUser(currentUser), then isAdmin(currentUser.uid) is started, or
\* navigate('/login') for a null user, which unmounts the page
SettingsAuthCallback(currentUser) ==
    settingsPage' =
        IF currentUser # Null
        THEN [settingsPage EXCEPT !.subscribed = TRUE,
                                  !.user = currentUser,
                                  !.pending = @ \cup {currentUser}]
        ELSE [settingsPage EXCEPT !.subscribed = TRUE,
                                  !.user = Null,
                                  !.mounted = FALSE,
                                  !.pending = {}]

\* the effect subscribes and Firebase delivers the current auth state
SettingsSubscribe ==
    /\ settingsPage.mounted /\ ~settingsPage.subscribed
    /\ SettingsAuthCallback(authUser)
    /\ UNCHANGED <<storeVars, authUser, commentsPage, routeVars, signInVars, last>>

\* the auth state of the session changes (sign-out, or another account)
SettingsAuthStateChanged(currentUser) ==
    /\ settingsPage.mounted /\ settingsPage.subscribed
    /\ currentUser # authUser
    /\ authUser' = currentUser
    /\ SettingsAuthCallback(currentUser)
    /\ UNCHANGED <<storeVars, commentsPage, routeVars, signInVars, last>>

\* the continuation of the callback for uid: adminStatus is the result of
\* isAdmin(uid); setIsAdminUser(adminStatus); a false result navigates away
SettingsResolve(uid, ok) ==
    /\ settingsPage.mounted /\ uid \in settingsPage.pending
    /\ LET adminStatus == isAdmin(uid, ok)
       IN  /\ settingsPage' =
                 [settingsPage EXCEPT !.isAdminUser = adminStatus,
                                      !.flagFor = uid,
                                      !.mounted = adminStatus,
                                      !.pending = IF adminStatus
                                                  THEN @ \ {uid} ELSE {}]
           /\ last' = Decision("client", "WriteSiteConfig", uid, 0, adminStatus)
    /\ UNCHANGED <<storeVars, authUser, commentsPage, routeVars, signInVars>>

\* the effect on isAdminUser: loadSettings sets settings and clears loading
loadSettings ==
    /\ settingsPage.mounted /\ settingsPage.isAdminUser
    /\ ~settingsPage.settings
    /\ settingsPage' = [settingsPage EXCEPT !.settings = TRUE]
    /\ UNCHANGED <<storeVars, authUser, commentsPage, routeVars, signInVars, last>>

\* setDoc(doc(db, 'site', 'settings'), ..., updatedBy: userId) by requester
WriteSite(by, requester, userId) ==
    LET ok == allowSiteWrite(requester)
    IN  /\ siteUpdatedBy' = IF ok THEN userId ELSE siteUpdatedBy
        /\ last' = Decision(by, "WriteSiteConfig", requester, 0, ok)
        /\ UNCHANGED <<users, posts, comments>>

\* SiteSettings.handleSubmit: returns unless user, isAdminUser and settings
\* are set, then updateSiteSettings(..., user.uid)
SettingsHandleSubmit ==
    /\ settingsPage.mounted
    /\ settingsPage.user # Null
    /\ settingsPage.isAdminUser
    /\ settingsPage.settings
    /\ WriteSite("handleSubmit", authUser, settingsPage.user)
    /\ UNCHANGED pageVars

\* any client's write of site/settings
ReqWriteSite(uid) ==
    /\ WriteSite("request", uid, uid)
    /\ UNCHANGED pageVars

NextSettings ==
    \/ SettingsSubscribe
    \/ \E u \in Principals : SettingsAuthStateChanged(u)
    \/ \E u \in Uids, ok \in BOOLEAN : SettingsResolve(u, ok)
    \/ loadSettings
    \/ SettingsHandleSubmit
    \/ \E u \in Principals : ReqWriteSite(u)
    \/ \E t \in Uids, r \in UserRole : AdminSetRole(t, r)

SpecSettings == InitSettings /\ [][NextSettings]_vars

\* ========================================================= Comments session
\* the component is shown under a post, over some state of the store
InitComments ==
    /\ users \in [Uids -> UserRole \cup {NoProfile}]
    /\ posts = [p \in PostIds |-> Absent]
    /\ comments = [c \in CommentIds |-> Absent]
    /\ siteUpdatedBy = Null
    /\ authUser \in Principals
    /\ settingsPage = Closed
    /\ commentsPage = CommentsPageState(TRUE, authUser)
    /\ RoutesIdle
    /\ SignInIdle
    /\ last = NoDecision

\* the onAuthStateChanged callback of Comments up to its first await:
\* setUser(currentUser), then canModerateComments(currentUser.uid) is started,
\* or setCanModerate(false) for a null user
CommentsAuthCallback(currentUser) ==
    commentsPage' =
        IF currentUser # Null
        THEN [commentsPage EXCEPT !.subscribed = TRUE,
                                  !.user = currentUser,
                                  !.pending = @ \cup {currentUser}]
        ELSE [commentsPage EXCEPT !.subscribed = TRUE,
                                  !.user = Null,
                                  !.canModerate = FALSE,
                                  !.flagFor = Null]

CommentsSubscribe ==
    /\ commentsPage.mounted /\ ~commentsPage.subscribed
    /\ CommentsAuthCallback(authUser)
    /\ UNCHANGED <<storeVars, authUser, settingsPage, routeVars, signInVars, last>>

CommentsAuthStateChanged(currentUser) ==
    /\ commentsPage.mounted /\ commentsPage.subscribed
    /\ currentUser # authUser
    /\ authUser' = currentUser
    /\ CommentsAuthCallback(currentUser)
    /\ UNCHANGED <<storeVars, settingsPage, routeVars, signInVars, last>>

\* the continuation of the callback for uid:
\* setCanModerate(await canModerateComments(uid))
CommentsResolve(uid, ok) ==
    /\ commentsPage.mounted /\ uid \in commentsPage.pending
    /\ LET moderateStatus == canModerateComments(uid, ok)
       IN  /\ commentsPage' =
                 [commentsPage EXCEPT !.canModerate = moderateStatus,
                                      !.flagFor = uid,
                                      !.pending = @ \ {uid}]
           /\ last' = Decision("client", "ModerateComment", uid, 0,
                               moderateStatus)
    /\ UNCHANGED <<storeVars, authUser, settingsPage, routeVars, signInVars>>

\* addDoc(collection(db, 'comments'), {authorId, ...}) by requester
CreateComment(by, requester, c, authorId) ==
    /\ comments[c] = Absent
    /\ LET ok == allowCommentCreate(requester)
       IN  /\ comments' = IF ok THEN [comments EXCEPT ![c] = authorId]
                                ELSE comments
           /\ last' = Decision(by, "CreateComment", requester, c, ok)
    /\ UNCHANGED <<users, posts, siteUpdatedBy>>

\* deleteDoc(doc(db, 'comments', c)) by requester
DeleteComment(by, requester, c) ==
    LET ok == allowCommentDelete(requester)
    IN  /\ comments' = IF ok THEN [comments EXCEPT ![c] = Absent]
                             ELSE comments
        /\ last' = Decision(by, "ModerateComment", requester, c, ok)
        /\ UNCHANGED <<users, posts, siteUpdatedBy>>

\* Comments.handleSubmit: returns for a null user, else adds the comment
\* with authorId user.uid
CommentsHandleSubmit(c) ==
    /\ commentsPage.mounted
    /\ commentsPage.user # Null
    /\ CreateComment("handleSubmit", authUser, c, commentsPage.user)
    /\ UNCHANGED pageVars

\* Comments.handleDeleteComment(commentId): returns unless canModerate, then
\* (once confirmed) deletes the comment
handleDeleteComment(c) ==
    /\ commentsPage.mounted
    /\ commentsPage.canModerate
    /\ comments[c] # Absent
    /\ DeleteComment("handleDeleteComment", authUser, c)
    /\ UNCHANGED pageVars

\* any client's requests on comments/{c}
ReqCreateComment(uid, c, authorId) ==
    /\ CreateComment("request", uid, c, authorId)
    /\ UNCHANGED pageVars

ReqDeleteComment(uid, c) ==
    /\ DeleteComment("request", uid, c)
    /\ UNCHANGED pageVars

\* any client's update of an existing comments/{c}; authorId stands for the
\* fields of the payload
ReqUpdateComment(uid, c, authorId) ==
    /\ comments[c] # Absent
    /\ LET ok == allowCommentUpdate(uid, c)
       IN  /\ comments' = IF ok THEN [comments EXCEPT ![c] = authorId]
                                ELSE comments
           /\ last' = Decision("request", "UpdateComment", uid, c, ok)
    /\ UNCHANGED <<users, posts, siteUpdatedBy, pageVars>>

\* any client's getDoc of posts/{p}
ReqReadPost(uid, p) ==
    /\ last' = Decision("request", "ReadPost", uid, p, allowPostRead(uid))
    /\ UNCHANGED <<storeVars, pageVars>>

NextComments ==
    \/ CommentsSubscribe
    \/ \E u \in Principals, p \in PostIds : ReqReadPost(u, p)
    \/ \E u \in Principals : CommentsAuthStateChanged(u)
    \/ \E u \in Uids, ok \in BOOLEAN : CommentsResolve(u, ok)
    \/ \E c \in CommentIds : CommentsHandleSubmit(c)
    \/ \E c \in CommentIds : handleDeleteComment(c)
    \/ \E u \in Principals, c \in CommentIds, a \in Uids :
          ReqCreateComment(u, c, a)
    \/ \E u \in Principals, c \in CommentIds : ReqDeleteComment(u, c)
    \/ \E t \in Uids, r \in UserRole : AdminSetRole(t, r)

SpecComments == InitComments /\ [][NextComments]_vars

\* ============================================================= Home session
\* the onAuthStateChanged callback of Home up to its first await:
\* setUser(currentUser), then canCreatePosts and isAdmin are started, or both
\* flags are set to false for a null user
HomeAuthCallback(currentUser) ==
    homePage' =
        IF currentUser # Null
        THEN [homePage EXCEPT !.subscribed = TRUE,
                              !.user = currentUser,
                              !.pending = @ \cup {currentUser}]
        ELSE [homePage EXCEPT !.subscribed = TRUE,
                              !.user = Null,
                              !.canCreate = FALSE,
                              !.isAdminUser = FALSE,
                              !.flagFor = Null]

HomeSubscribe ==
    /\ homePage.mounted /\ ~homePage.subscribed
    /\ HomeAuthCallback(authUser)
    /\ UNCHANGED <<storeVars, authUser, settingsPage, commentsPage,
                   detailPage, editPage, signInVars, last>>

HomeAuthStateChanged(currentUser) ==
    /\ homePage.mounted /\ homePage.subscribed
    /\ currentUser # authUser
    /\ authUser' = currentUser
    /\ HomeAuthCallback(currentUser)
    /\ UNCHANGED <<storeVars, settingsPage, commentsPage,
                   detailPage, editPage, signInVars, last>>

\* the continuation of the callback for uid, once both reads have ended:
\* setCanCreate(canCreateStatus); setIsAdminUser(adminStatus)
HomeResolve(uid, okCreate, okAdmin) ==
    /\ homePage.mounted /\ uid \in homePage.pending
    /\ homePage' =
          [homePage EXCEPT
              !.canCreate = canCreatePosts(uid, okCreate),
              !.isAdminUser = isAdmin(uid, okAdmin),
              !.flagFor = uid,
              !.resolved = IF okCreate /\ okAdmin THEN "ok"
                           ELSE IF ~okCreate /\ ~okAdmin THEN "unavailable"
                           ELSE "partial",
              !.pending = @ \ {uid}]
    /\ UNCHANGED <<storeVars, authUser, settingsPage, commentsPage,
                   detailPage, editPage, signInVars, last>>

\* fetchPosts: getDocs of the posts collection; setPosts(postsData) on
\* success, the list is left as it is on error; finally setLoading(false)
HomeFetchPosts(ok) ==
    /\ homePage.mounted /\ homePage.loading
    /\ homePage' = [homePage EXCEPT !.posts = IF ok THEN posts ELSE @,
                                    !.loading = FALSE]
    /\ UNCHANGED <<storeVars, authUser, settingsPage, commentsPage,
                   detailPage, editPage, signInVars, last>>

\* {user ? (canCreate && <Link to="/create-post">) : Login}
HomeShowsCreatePost ==
    homePage.mounted /\ homePage.user # Null /\ homePage.canCreate

\* <PostCard post={post} isEditor={canCreate} />: PostCard renders its Edit
\* and Delete controls when isEditor is set
HomeShowsEditDelete(p) ==
    /\ homePage.mounted /\ ~homePage.loading
    /\ homePage.posts[p] # Absent
    /\ homePage.canCreate

\* the Delete control of the card of post p, confirmed: handleDeletePost
\* issues deleteDoc(posts/p) and, when it succeeded, fetchPosts again
HomeHandleDeletePost(p) ==
    /\ HomeShowsEditDelete(p)
    /\ LET ok == posts[p] # Absent /\ allowPostUpdateDelete(authUser, p)
       IN  /\ posts' = IF ok THEN [posts EXCEPT ![p] = Absent] ELSE posts
           /\ homePage' = [homePage EXCEPT !.posts = IF ok THEN posts' ELSE @]
           /\ last' = Decision("handleDeletePost", "DeletePost", authUser, p, ok)
    /\ UNCHANGED <<users, comments, siteUpdatedBy, authUser, settingsPage,
                   commentsPage, detailPage, editPage, signInVars>>

\* Home opened over an empty posts collection
InitHome ==
    /\ users \in [Uids -> UserRole \cup {NoProfile}]
    /\ posts = [p \in PostIds |-> Absent]
    /\ comments = [c \in CommentIds |-> Absent]
    /\ siteUpdatedBy = Null
    /\ authUser \in Principals
    /\ settingsPage = Closed
    /\ commentsPage = Closed
    /\ homePage = HomePageState(TRUE, authUser)
    /\ detailPage = Closed
    /\ editPage = Closed
    /\ SignInIdle
    /\ last = NoDecision

NextHome ==
    \/ HomeSubscribe
    \/ \E u \in Principals : HomeAuthStateChanged(u)
    \/ \E u \in Uids, okCreate \in BOOLEAN, okAdmin \in BOOLEAN :
          HomeResolve(u, okCreate, okAdmin)
    \/ \E ok \in BOOLEAN : HomeFetchPosts(ok)

SpecHome == InitHome /\ [][NextHome]_vars

\* Home opened over any posts collection, with the post cards in use
InitHomeList ==
    /\ users \in [Uids -> UserRole \cup {NoProfile}]
    /\ posts \in [PostIds -> Uids \cup {Absent}]
    /\ comments = [c \in CommentIds |-> Absent]
    /\ siteUpdatedBy = Null
    /\ authUser \in Principals
    /\ settingsPage = Closed
    /\ commentsPage = Closed
    /\ homePage = HomePageState(TRUE, authUser)
    /\ detailPage = Closed
    /\ editPage = Closed
    /\ SignInIdle
    /\ last = NoDecision

NextHomeList ==
    \/ NextHome
    \/ \E p \in PostIds : HomeHandleDeletePost(p)

SpecHomeList == InitHomeList /\ [][NextHomeList]_vars

\* ======================================================= PostDetail session
\* /post/:id is opened in a browser session over some state of the store
InitDetail ==
    /\ users \in [Uids -> UserRole \cup {NoProfile}]
    /\ posts \in [PostIds -> Uids \cup {Absent}]
    /\ comments = [c \in CommentIds |-> Absent]
    /\ siteUpdatedBy = Null
    /\ authUser \in Principals
    /\ settingsPage = Closed
    /\ commentsPage = Closed
    /\ homePage = Closed
    /\ \E id \in PostIds : detailPage = DetailPageState(TRUE, id, authUser)
    /\ editPage = Closed
    /\ SignInIdle
    /\ last = NoDecision

\* the effect on [user, post]: checkPermissions is started when both are set
DetailCheckStarted(page, user, post) ==
    IF user # Null /\ post # Null
    THEN page.pending \cup {[uid |-> user, authorId |-> post]}
    ELSE page.pending

\* a variant of the callback in which a changed user does not run the
\* effect on [user, post] again
DetailAuthCallback_noRecheck(currentUser) ==
    detailPage' = [detailPage EXCEPT !.subscribed = TRUE,
                                     !.user = currentUser,
                                     !.canEdit = FALSE,
                                     !.flagFor = Null,
                                     !.flagAuthor = Null]

\* the onAuthStateChanged callback of PostDetail: setUser(currentUser); the
\* effect has no dependencies, so the post it closed over is the null of the
\* first render and the else branch runs: setCanEdit(false); a changed user
\* re-runs the effect on [user, post]
DetailAuthCallback(currentUser) ==
    detailPage' =
        [detailPage EXCEPT
            !.subscribed = TRUE,
            !.user = currentUser,
            !.canEdit = FALSE,
            !.flagFor = Null,
            !.flagAuthor = Null,
            !.pending = IF currentUser # detailPage.user
                        THEN DetailCheckStarted(detailPage, currentUser,
                                                detailPage.post)
                        ELSE @]

DetailSubscribe ==
    /\ detailPage.mounted /\ ~detailPage.subscribed
    /\ DetailAuthCallback(authUser)
    /\ UNCHANGED <<storeVars, authUser, settingsPage, commentsPage, homePage,
                   editPage, signInVars, last>>

DetailAuthStateChanged(currentUser) ==
    /\ detailPage.mounted /\ detailPage.subscribed
    /\ currentUser # authUser
    /\ authUser' = currentUser
    /\ DetailAuthCallback(currentUser)
    /\ UNCHANGED <<storeVars, settingsPage, commentsPage, homePage,
                   editPage, signInVars, last>>

\* fetchPost: getDoc(posts/id); an existing post is set (and the effect on
\* [user, post] runs), a missing post or a failed read navigates to '/'.
\* The effects run in the order they are written: onAuthStateChanged is
\* registered first and, the session being initialised (useState took
\* auth.currentUser), reports the current user before the getDoc issued
\* after it can resolve; a user restored or signed in later is
\* DetailAuthStateChanged.
DetailFetchPost(ok) ==
    /\ detailPage.mounted /\ detailPage.loading
    /\ detailPage.subscribed
    /\ detailPage' =
          IF ok /\ posts[detailPage.id] # Absent
          THEN [detailPage EXCEPT
                   !.post = posts[detailPage.id],
                   !.loading = FALSE,
                   !.pending = DetailCheckStarted(detailPage, detailPage.user,
                                                  posts[detailPage.id])]
          ELSE [detailPage EXCEPT !.loading = FALSE, !.mounted = FALSE]
    /\ UNCHANGED <<storeVars, authUser, settingsPage, commentsPage, homePage,
                   editPage, signInVars, last>>

\* the continuation of checkPermissions for the pair c it was started with:
\* setCanEdit(canEditAny || (canEditOwn && isOwnPost))
DetailResolve(c, okAny, okOwn) ==
    /\ detailPage.mounted /\ c \in detailPage.pending
    /\ LET result == userCanEdit(c.uid, c.authorId, okAny, okOwn)
       IN  /\ detailPage' = [detailPage EXCEPT !.canEdit = result,
                                               !.flagFor = c.uid,
                                               !.flagAuthor = c.authorId,
                                               !.pending = @ \ {c}]
           /\ last' = Decision(IF okAny /\ okOwn THEN "client"
                                               ELSE "client:unavailable",
                               "EditPost", c.uid, detailPage.id, result)
    /\ UNCHANGED <<storeVars, authUser, settingsPage, commentsPage, homePage,
                   editPage, signInVars>>

\* what PostDetail renders once the post is loaded
DetailRendered ==
    detailPage.mounted /\ ~detailPage.loading /\ detailPage.post # Null

\* {canEdit && (<div className="post-actions">Edit, Delete</div>)}
DetailShowsEditDelete ==
    DetailRendered /\ detailPage.canEdit

\* {user ? (canEdit && post && <Link to="/create-post">) : Login}
DetailShowsCreatePost ==
    DetailRendered /\ detailPage.user # Null /\ detailPage.canEdit

\* handleDeleteClick of the Delete button: the dialog opens
DetailHandleDeleteClick ==
    /\ DetailShowsEditDelete /\ ~detailPage.showDeleteDialog
    /\ detailPage' = [detailPage EXCEPT !.showDeleteDialog = TRUE]
    /\ UNCHANGED <<storeVars, authUser, settingsPage, commentsPage, homePage,
                   editPage, signInVars, last>>

\* a variant whose dialog stays open after a failed delete, so that the
\* same confirmation can issue the delete again
DetailHandleConfirmDelete_keepsDialog ==
    /\ DetailRendered /\ detailPage.showDeleteDialog
    /\ LET ok == /\ posts[detailPage.id] # Absent
                 /\ allowPostUpdateDelete(authUser, detailPage.id)
       IN  /\ posts' = IF ok THEN [posts EXCEPT ![detailPage.id] = Absent]
                             ELSE posts
           /\ detailPage' = [detailPage EXCEPT !.showDeleteDialog = ~ok,
                                               !.mounted = ~ok]
           /\ last' = Decision("handleConfirmDelete", "DeletePost", authUser,
                               detailPage.id, ok)
    /\ UNCHANGED <<users, comments, siteUpdatedBy, authUser, settingsPage,
                   commentsPage, homePage, editPage, signInVars>>

\* handleConfirmDelete of the dialog: deleteDoc(posts/id), then navigate('/')
\* when it succeeded; the dialog closes
DetailHandleConfirmDelete ==
    /\ DetailRendered /\ detailPage.showDeleteDialog
    /\ LET ok == /\ posts[detailPage.id] # Absent
                 /\ allowPostUpdateDelete(authUser, detailPage.id)
       IN  /\ posts' = IF ok THEN [posts EXCEPT ![detailPage.id] = Absent]
                             ELSE posts
           /\ detailPage' = [detailPage EXCEPT !.showDeleteDialog = FALSE,
                                               !.mounted = ~ok]
           /\ last' = Decision("handleConfirmDelete", "DeletePost", authUser,
                               detailPage.id, ok)
    /\ UNCHANGED <<users, comments, siteUpdatedBy, authUser, settingsPage,
                   commentsPage, homePage, editPage, signInVars>>

NextDetail ==
    \/ DetailSubscribe
    \/ \E u \in Principals : DetailAuthStateChanged(u)
    \/ \E ok \in BOOLEAN : DetailFetchPost(ok)
    \/ \E c \in detailPage.pending, okAny \in BOOLEAN, okOwn \in BOOLEAN :
          DetailResolve(c, okAny, okOwn)
    \/ DetailHandleDeleteClick
    \/ DetailHandleConfirmDelete

SpecDetail == InitDetail /\ [][NextDetail]_vars

\* ========================================================= EditPost session
\* /edit-post/:id is opened in a browser session over some state of the store
InitEdit ==
    /\ users \in [Uids -> UserRole \cup {NoProfile}]
    /\ posts \in [PostIds -> Uids \cup {Absent}]
    /\ comments = [c \in CommentIds |-> Absent]
    /\ siteUpdatedBy = Null
    /\ authUser \in Principals
    /\ settingsPage = Closed
    /\ commentsPage = Closed
    /\ homePage = Closed
    /\ detailPage = Closed
    /\ \E id \in PostIds : editPage = EditPageState(TRUE, id, authUser)
    /\ SignInIdle
    /\ last = NoDecision

\* the onAuthStateChanged callback of EditPost up to its first await:
\* navigate('/login') for a null user, else setUser(currentUser) and the two
\* helper reads are started; the callback closed over the postAuthorId of
\* the effect run that subscribed it. A changed user re-runs the effect on
\* [id, user, checkingPermission], which starts fetchPost once
\* checkingPermission is false
EditAuthCallback(currentUser) ==
    editPage' =
        IF currentUser = Null
        THEN [editPage EXCEPT !.subscribed = TRUE, !.mounted = FALSE]
        ELSE [editPage EXCEPT
                 !.subscribed = TRUE,
                 !.user = currentUser,
                 !.pending = @ \cup {[uid |-> currentUser,
                                      authorId |-> editPage.postAuthorId]},
                 !.fetching = \/ @
                              \/ ( /\ currentUser # editPage.user
                                   /\ ~editPage.checkingPermission )]

\* the effect on [navigate, postAuthorId] subscribes and Firebase delivers
\* the current auth state
EditSubscribe ==
    /\ editPage.mounted /\ ~editPage.subscribed
    /\ EditAuthCallback(authUser)
    /\ UNCHANGED <<storeVars, authUser, settingsPage, commentsPage, homePage,
                   detailPage, signInVars, last>>

EditAuthStateChanged(currentUser) ==
    /\ editPage.mounted /\ editPage.subscribed
    /\ currentUser # authUser
    /\ authUser' = currentUser
    /\ EditAuthCallback(currentUser)
    /\ UNCHANGED <<storeVars, settingsPage, commentsPage, homePage,
                   detailPage, signInVars, last>>

\* the continuation of the callback for the pair c: with a postAuthorId,
\* userCanEdit = canEditAny || (canEditOwn && isOwnPost) and a false result
\* navigates to '/'; without one, userCanEdit = canEditAny || canEditOwn;
\* then setCheckingPermission(false), which starts fetchPost
EditResolve(c, okAny, okOwn) ==
    /\ editPage.mounted /\ c \in editPage.pending
    /\ LET result ==
               IF c.authorId # Null
               THEN userCanEdit(c.uid, c.authorId, okAny, okOwn)
               ELSE canEditAnyPost(c.uid, okAny) \/ canEditOwnPosts(c.uid, okOwn)
           stays == c.authorId = Null \/ result
       IN  /\ editPage' =
                 [editPage EXCEPT
                     !.canEdit = result,
                     !.flagFor = c.uid,
                     !.flagAuthor = c.authorId,
                     !.pending = @ \ {c},
                     !.mounted = stays,
                     !.checkingPermission = FALSE,
                     !.fetching = @ \/ (stays /\ editPage.checkingPermission)]
           /\ last' = Decision(IF okAny /\ okOwn THEN "client"
                                               ELSE "client:unavailable",
                               "EditPost", c.uid, editPage.id, result)
    /\ UNCHANGED <<storeVars, authUser, settingsPage, commentsPage, homePage,
                   detailPage, signInVars>>

\* fetchPost: getDoc(posts/id); an existing post sets postAuthorId, and a
\* changed postAuthorId re-runs the auth effect, which subscribes again; a
\* missing post or a failed read navigates to '/'; finally
\* setLoadingPost(false)
EditFetchPost(ok) ==
    /\ editPage.mounted /\ editPage.fetching
    /\ editPage' =
          IF ok /\ posts[editPage.id] # Absent
          THEN [editPage EXCEPT
                   !.postAuthorId = posts[editPage.id],
                   !.loadingPost = FALSE,
                   !.fetching = FALSE,
                   !.subscribed = @ /\ posts[editPage.id] = editPage.postAuthorId]
          ELSE [editPage EXCEPT !.loadingPost = FALSE, !.fetching = FALSE,
                                !.mounted = FALSE]
    /\ UNCHANGED <<storeVars, authUser, settingsPage, commentsPage, homePage,
                   detailPage, signInVars, last>>

\* the render guards: Loading... while !user || checkingPermission ||
\* loadingPost, Access Denied while !canEdit, else the edit form
EditFormRendered ==
    /\ editPage.mounted
    /\ editPage.user # Null
    /\ ~editPage.checkingPermission
    /\ ~editPage.loadingPost
    /\ editPage.canEdit

\* a variant of updateData that also carries the editing user as authorId
updateData_withAuthorId ==
    {"title", "content", "updatedAt", "categories", "tags", "featuredImage",
     "authorId"}

\* the fields of the updateData object handleSubmit passes to updateDoc
updateData ==
    {"title", "content", "updatedAt", "categories", "tags", "featuredImage"}

\* EditPost.handleSubmit: returns unless user and canEdit are set, then
\* updateDoc(posts/id, updateData), which writes the fields of updateData
\* and leaves every other stored field, and navigate('/') when it succeeded
EditHandleSubmit ==
    /\ EditFormRendered
    /\ LET ok == /\ posts[editPage.id] # Absent
                 /\ allowPostUpdateDelete(authUser, editPage.id)
       IN  /\ posts' = IF ok /\ "authorId" \in updateData
                       THEN [posts EXCEPT ![editPage.id] = editPage.user]
                       ELSE posts
           /\ editPage' = [editPage EXCEPT !.mounted = ~ok]
           /\ last' = Decision("handleSubmit", "EditPost", authUser,
                               editPage.id, ok)
    /\ UNCHANGED <<users, comments, siteUpdatedBy, authUser, settingsPage,
                   commentsPage, homePage, detailPage, signInVars>>

NextEdit ==
    \/ EditSubscribe
    \/ \E u \in Principals : EditAuthStateChanged(u)
    \/ \E c \in editPage.pending, okAny \in BOOLEAN, okOwn \in BOOLEAN :
          EditResolve(c, okAny, okOwn)
    \/ \E ok \in BOOLEAN : EditFetchPost(ok)
    \/ EditHandleSubmit

SpecEdit == InitEdit /\ [][NextEdit]_vars

\* an EditPost session in which the auth state does not change after the
\* page was opened
NextEditSession ==
    \/ EditSubscribe
    \/ \E c \in editPage.pending, okAny \in BOOLEAN, okOwn \in BOOLEAN :
          EditResolve(c, okAny, okOwn)
    \/ \E ok \in BOOLEAN : EditFetchPost(ok)
    \/ EditHandleSubmit

SpecEditSession == InitEdit /\ [][NextEditSession]_vars

\* the same session under the scheduling the page can count on: the
\* subscription of the auth effect is delivered and a started fetchPost is
\* answered. The continuation after `await canEditAnyPost / canEditOwnPosts`
\* runs when getDoc settles and the callback sets no timer, so the page has
\* no step of its own for a read that stays pending: EditResolve is not fair
SpecEditHang ==
    /\ InitEdit /\ [][NextEdit]_vars
    /\ WF_vars(EditSubscribe)
    /\ WF_vars(\E ok \in BOOLEAN : EditFetchPost(ok))

\* ========================================================== sign-in, users/
\* profile: UserRole = 'subscriber'
DefaultProfile_author == "author"

DefaultProfile == "subscriber"

\* user.displayName as the authentication provider reports it at a sign-in
DisplayNames == {"Ana", "Ana M."}

\* an empty users collection: every principal is new
InitSignIn ==
    /\ users = [u \in Uids |-> NoProfile]
    /\ posts = [p \in PostIds |-> Absent]
    /\ comments = [c \in CommentIds |-> Absent]
    /\ siteUpdatedBy = Null
    /\ authUser = Null
    /\ settingsPage = Closed
    /\ commentsPage = Closed
    /\ RoutesIdle
    /\ SignInIdle
    /\ last = NoDecision

\* createUserProfile up to its await: now = Timestamp.now() and profileData
\* is built from the signed-in user and the default profile argument
SignInBegin(user, displayName) ==
    /\ now < MaxCalls
    /\ now' = now + 1
    /\ calls' = calls \cup {[uid |-> user, displayName |-> displayName,
                             profile |-> DefaultProfile, createdAt |-> now + 1,
                             stage |-> "setDoc"]}
    /\ UNCHANGED <<storeVars, authUser, settingsPage, commentsPage, routeVars,
                   userFields, siteFields, last>>

\* setDoc(doc(db, 'users', user.uid), profileData, {merge: true}): every
\* field of profileData is written to the one document keyed by the uid
SignInSetDoc(call) ==
    /\ call \in calls /\ call.stage = "setDoc"
    /\ allowUserWrite(call.uid, call.uid)
    /\ users' = [users EXCEPT ![call.uid] = call.profile]
    /\ userFields' = [userFields EXCEPT ![call.uid] =
                         [uid |-> call.uid, displayName |-> call.displayName,
                          createdAt |-> call.createdAt]]
    /\ calls' = (calls \ {call}) \cup {[call EXCEPT !.stage = "return"]}
    /\ last' = Decision("createUserProfile", "WriteProfile", call.uid,
                        call.uid, TRUE)
    /\ UNCHANGED <<posts, comments, siteUpdatedBy, authUser, settingsPage,
                   commentsPage, routeVars, siteFields, now>>

\* the call returns the UserProfile built from profileData
SignInReturn(call) ==
    /\ call \in calls /\ call.stage = "return"
    /\ calls' = (calls \ {call}) \cup {[call EXCEPT !.stage = "returned"]}
    /\ UNCHANGED <<storeVars, authUser, settingsPage, commentsPage, routeVars,
                   userFields, siteFields, now, last>>

NextSignIn ==
    \/ \E u \in Uids, n \in DisplayNames : SignInBegin(u, n)
    \/ \E call \in calls : SignInSetDoc(call)
    \/ \E call \in calls : SignInReturn(call)

SpecSignIn == InitSignIn /\ [][NextSignIn]_vars

\* ====================================================== updateSiteSettings
\* DEFAULT_SETTINGS, for the two fields followed
DEFAULT_SETTINGS == [siteTitle |-> "Corre de PhD", theme |-> "default"]

SettingsFields == {"siteTitle", "theme"}
SiteTitles == {"Corre de PhD", "Lab notes"}
Themes == {"default", "dark"}
\* a field the Partial<...> argument does not carry
Unset == "unset"

\* the Partial<SiteSettings> arguments: at least one field is carried
PartialSettings ==
    {s \in [siteTitle : SiteTitles \cup {Unset}, theme : Themes \cup {Unset}] :
        s.siteTitle # Unset \/ s.theme # Unset}

\* data.field || DEFAULT_SETTINGS.field
OrDefault(value, default) == IF value = "" THEN default ELSE value

\* getSiteSettings: getDoc(site/settings); the mapped fields when the
\* snapshot exists, null when it does not or when the read threw
getSiteSettings(ok) ==
    IF ok /\ siteFields.exists
    THEN [exists |-> TRUE,
          siteTitle |-> OrDefault(siteFields.siteTitle,
                                  DEFAULT_SETTINGS.siteTitle),
          theme |-> OrDefault(siteFields.theme, DEFAULT_SETTINGS.theme)]
    ELSE NoSettings

\* settings.f ?? currentSettings?.f ?? DEFAULT_SETTINGS.f
dataToSave(settings, currentSettings) ==
    [f \in SettingsFields |->
        IF settings[f] # Unset THEN settings[f]
        ELSE IF currentSettings.exists THEN currentSettings[f]
        ELSE DEFAULT_SETTINGS[f]]

\* updateSiteSettings(settings, userId) is called: it is about to await
\* getSiteSettings()
SiteUpdateBegin(userId, settings) ==
    /\ now < MaxCalls
    /\ now' = now + 1
    /\ calls' = calls \cup {[id |-> now + 1, uid |-> userId,
                             settings |-> settings, stage |-> "read",
                             readOk |-> FALSE, currentSettings |-> NoSettings]}
    /\ UNCHANGED <<storeVars, authUser, settingsPage, commentsPage, routeVars,
                   userFields, siteFields, last>>

\* const currentSettings = await getSiteSettings()
SiteUpdateRead(call, ok) ==
    /\ call \in calls /\ call.stage = "read"
    /\ calls' = (calls \ {call})
                   \cup {[call EXCEPT !.stage = "setDoc", !.readOk = ok,
                                      !.currentSettings = getSiteSettings(ok)]}
    /\ UNCHANGED <<storeVars, authUser, settingsPage, commentsPage, routeVars,
                   userFields, siteFields, now, last>>

\* await setDoc(settingsRef, dataToSave, {merge: true}): the rule for
\* site/settings decides; every field of dataToSave, siteTitle and theme
\* among them whatever the argument carried, and updatedBy are written
SiteUpdateSetDoc(call) ==
    /\ call \in calls /\ call.stage = "setDoc"
    /\ LET ok == allowSiteWrite(call.uid)
           data == dataToSave(call.settings, call.currentSettings)
       IN  /\ siteFields' = IF ok THEN [exists |-> TRUE,
                                        siteTitle |-> data.siteTitle,
                                        theme |-> data.theme]
                                  ELSE siteFields
           /\ siteUpdatedBy' = IF ok THEN call.uid ELSE siteUpdatedBy
           /\ last' = Decision("updateSiteSettings", "WriteSiteConfig",
                               call.uid, call.id, ok)
    /\ calls' = (calls \ {call}) \cup {[call EXCEPT !.stage = "done"]}
    /\ UNCHANGED <<users, posts, comments, authUser, settingsPage,
                   commentsPage, routeVars, userFields, now>>

\* updateSiteSettings is called by signed-in users over some state of
\* site/settings
InitSiteUpdate ==
    /\ users \in [Uids -> {"admin", "subscriber"}]
    /\ posts = [p \in PostIds |-> Absent]
    /\ comments = [c \in CommentIds |-> Absent]
    /\ siteFields \in {NoSettings}
          \cup [exists : {TRUE}, siteTitle : SiteTitles, theme : Themes]
    /\ siteUpdatedBy \in IF siteFields.exists
                         THEN {u \in Uids : users[u] = "admin"} \cup {Null}
                         ELSE {Null}
    /\ PagesIdle
    /\ userFields = [u \in Uids |-> NoFields]
    /\ calls = {}
    /\ now = 0
    /\ last = NoDecision

NextSiteUpdate ==
    \/ \E u \in Uids, s \in PartialSettings : SiteUpdateBegin(u, s)
    \/ \E call \in calls, ok \in BOOLEAN : SiteUpdateRead(call, ok)
    \/ \E call \in calls : SiteUpdateSetDoc(call)

SpecSiteUpdate == InitSiteUpdate /\ [][NextSiteUpdate]_vars

\* ================================================ checkPermissions, by read
\* checkPermissions of PostDetail (and the same two awaits of the EditPost
\* callback) followed read by read, while the role of a user is edited in
\* the Firebase Console. One call is followed at a time; seenAny and seenOwn
\* keep the role each read returned.
CheckBegin(uid, p) ==
    /\ posts[p] # Absent
    /\ \A call \in calls : call.stage = "done"
    /\ calls' = {[uid |-> uid, authorId |-> posts[p], stage |-> "canEditAny",
                  canEditAny |-> FALSE, seenAny |-> NoRole,
                  seenOwn |-> NoRole, result |-> FALSE]}
    /\ UNCHANGED <<storeVars, authUser, settingsPage, commentsPage, routeVars,
                   userFields, siteFields, now, last>>

\* const canEditAny = await canEditAnyPost(user.uid)
CheckReadAny(call, ok) ==
    /\ call \in calls /\ call.stage = "canEditAny"
    /\ calls' = {[call EXCEPT !.stage = "canEditOwn",
                              !.canEditAny = canEditAnyPost(call.uid, ok),
                              !.seenAny = getUserProfile(call.uid, ok)]}
    /\ UNCHANGED <<storeVars, authUser, settingsPage, commentsPage, routeVars,
                   userFields, siteFields, now, last>>

\* const canEditOwn = await canEditOwnPosts(user.uid); isOwnPost =
\* user.uid === post.authorId; setCanEdit(canEditAny || (canEditOwn &&
\* isOwnPost))
CheckReadOwn(call, ok) ==
    /\ call \in calls /\ call.stage = "canEditOwn"
    /\ LET canEditOwn == canEditOwnPosts(call.uid, ok)
           isOwnPost == call.uid = call.authorId
       IN  calls' = {[call EXCEPT
                         !.stage = "done",
                         !.seenOwn = getUserProfile(call.uid, ok),
                         !.result = call.canEditAny
                                       \/ (canEditOwn /\ isOwnPost)]}
    /\ UNCHANGED <<storeVars, authUser, settingsPage, commentsPage, routeVars,
                   userFields, siteFields, now, last>>

InitCheck ==
    /\ users \in [Uids -> UserRole \cup {NoProfile}]
    /\ posts \in [PostIds -> Uids \cup {Absent}]
    /\ comments = [c \in CommentIds |-> Absent]
    /\ siteUpdatedBy = Null
    /\ PagesIdle
    /\ SignInIdle
    /\ last = NoDecision

NextCheck ==
    \/ \E u \in Uids, p \in PostIds : CheckBegin(u, p)
    \/ \E call \in calls, ok \in BOOLEAN : CheckReadAny(call, ok)
    \/ \E call \in calls, ok \in BOOLEAN : CheckReadOwn(call, ok)
    \/ \E t \in Uids, r \in UserRole : AdminSetRole(t, r)

SpecCheck == InitCheck /\ [][NextCheck]_vars

\* the stored roles alone: sign-ins and console edits over some state of the
\* store
NextRoles ==
    \/ \E u \in Uids : createUserProfile(u, "subscriber")
    \/ \E t \in Uids, r \in UserRole : AdminSetRole(t, r)

SpecRoles == InitCheck /\ [][NextRoles]_vars

\* ========================================================== comments store
\* the requests any client can send on comments/{c}, over any stored roles
InitCommentStore ==
    /\ users \in [Uids -> UserRole \cup {NoProfile}]
    /\ posts = [p \in PostIds |-> Absent]
    /\ comments = [c \in CommentIds |-> Absent]
    /\ siteUpdatedBy = Null
    /\ PagesIdle
    /\ SignInIdle
    /\ last = NoDecision

NextCommentStore ==
    \/ \E u \in Principals, c \in CommentIds, a \in Uids :
          ReqCreateComment(u, c, a)
    \/ \E u \in Principals, c \in CommentIds, a \in Uids :
          ReqUpdateComment(u, c, a)
    \/ \E u \in Principals, c \in CommentIds : ReqDeleteComment(u, c)

SpecCommentStore == InitCommentStore /\ [][NextCommentStore]_vars

\* ======================================================= permission helpers
\* the helpers of userProfile.ts called for any principal over any state of
\* the store, the profile read succeeding (ok) or throwing
InitHelpers ==
    /\ users \in [Uids -> UserRole \cup {NoProfile}]
    /\ posts = [p \in PostIds |-> Absent]
    /\ comments = [c \in CommentIds |-> Absent]
    /\ siteUpdatedBy = Null
    /\ PagesIdle
    /\ last = NoDecision

\* a variant in which a successful read of a missing profile creates a
\* subscriber record for the uid
Returned_createsRecord(helper, userId, ok, value) ==
    /\ last' = Decision(IF ok THEN "helper" ELSE "helper:unavailable",
                        helper, userId, 0, value)
    /\ users' = IF ok /\ users[userId] = NoProfile
                THEN [users EXCEPT ![userId] = "subscriber"] ELSE users
    /\ UNCHANGED <<posts, comments, siteUpdatedBy, pageVars>>

\* the outcome of one helper call: allowed is the value returned; the
\* helpers only read (getDoc), nothing is written
Returned(helper, userId, ok, value) ==
    /\ last' = Decision(IF ok THEN "helper" ELSE "helper:unavailable",
                        helper, userId, 0, value)
    /\ UNCHANGED <<storeVars, pageVars>>

\* getUserProfile returns a profile (allowed) or null
CallGetUserProfile(userId, ok) ==
    Returned("getUserProfile", userId, ok, getUserProfile(userId, ok) # NoRole)

\* getUserRole returns a role (allowed) or null
CallGetUserRole(userId, ok) ==
    Returned("getUserRole", userId, ok, getUserRole(userId, ok) # NoRole)

CallIsEditor(userId, ok) ==
    Returned("isEditor", userId, ok, isEditor(userId, ok))

CallIsAdmin(userId, ok) ==
    Returned("isAdmin", userId, ok, isAdmin(userId, ok))

CallCanCreatePosts(userId, ok) ==
    Returned("canCreatePosts", userId, ok, canCreatePosts(userId, ok))

CallCanEditAnyPost(userId, ok) ==
    Returned("canEditAnyPost", userId, ok, canEditAnyPost(userId, ok))

CallCanEditOwnPosts(userId, ok) ==
    Returned("canEditOwnPosts", userId, ok, canEditOwnPosts(userId, ok))

CallCanModerateComments(userId, ok) ==
    Returned("canModerateComments", userId, ok,
             canModerateComments(userId, ok))

NextHelpers ==
    \/ \E u \in Uids, ok \in BOOLEAN : CallGetUserProfile(u, ok)
    \/ \E u \in Uids, ok \in BOOLEAN : CallGetUserRole(u, ok)
    \/ \E u \in Uids, ok \in BOOLEAN : CallIsEditor(u, ok)
    \/ \E u \in Uids, ok \in BOOLEAN : CallIsAdmin(u, ok)
    \/ \E u \in Uids, ok \in BOOLEAN : CallCanCreatePosts(u, ok)
    \/ \E u \in Uids, ok \in BOOLEAN : CallCanEditAnyPost(u, ok)
    \/ \E u \in Uids, ok \in BOOLEAN : CallCanEditOwnPosts(u, ok)
    \/ \E u \in Uids, ok \in BOOLEAN : CallCanModerateComments(u, ok)

SpecHelpers == InitHelpers /\ [][NextHelpers]_vars

\* ================================================================== claims
Stored(u) == u # Null /\ users[u] \in UserRole

\* the rule table of the permission evaluator for EditPost and DeletePost
TableEditDelete(role, own) ==
    \/ role \in {"admin", "editor"}
    \/ (role \in {"author", "contributor"} /\ own)

\* a storage request on a post that the store has just applied
AppliedPostWrite ==
    /\ last'.by \notin {"client", "console", "none"}
    /\ last'.op \in {"EditPost", "DeletePost"}
    /\ last'.allowed

\* C1: for every stored role, every action of the rule table and every
\* ownership value, the client decision built from the userProfile helpers
\* equals the decision of the production rules on the same store state.
C1_ClientEqualsStorage ==
    \A u \in Uids, a \in ActionKinds, p \in PostIds :
        ( /\ users[u] \in UserRole
          /\ (a \in {"EditPost", "DeletePost"} => posts[p] # Absent) )
        => (evaluateClient(u, a, p, TRUE) <=> evaluateStorage(u, a, p))

\* a contributor's client check of EditPost on a post of their own said allow
C1_Witness ==
    /\ last.by = "client" /\ last.op = "EditPost" /\ last.allowed
    /\ Stored(last.uid) /\ users[last.uid] = "contributor"
    /\ posts[last.target] = last.uid

\* C2: no storage request that the rules permit and that is issued by a
\* principal whose stored role is not admin changes that principal's role.
C2_RoleUnchangedByRequests ==
    [][ ( /\ last'.by \in {"request", "createUserProfile"}
          /\ last'.allowed
          /\ last'.uid # Null
          /\ users[last'.uid] \in UserRole \ {"admin"} )
        => users'[last'.uid] = users[last'.uid] ]_vars

\* C3: no step changes the authorId of a stored post: a post that exists
\* before and after a step has the same authorId, for every requester role.
C3_AuthorIdImmutable ==
    [][ \A p \in PostIds :
            (posts[p] # Absent /\ posts'[p] # Absent) => posts'[p] = posts[p] ]_vars

\* C4: createUserProfile(user) for a principal that already has a stored
\* ProfileRecord leaves the stored role unchanged.
C4_SignInKeepsRole ==
    [][ ( /\ last'.by = "createUserProfile"
          /\ users[last'.uid] \in UserRole )
        => users'[last'.uid] = users[last'.uid] ]_vars

\* C5: an update or delete of a stored post is applied only by a storage
\* request whose requester, at that moment, is authenticated and has stored
\* role admin or editor, or author or contributor and is the stored authorId.
C5_StorageAuthoritative ==
    [][ /\ \A p \in PostIds :
              (posts[p] # Absent /\ posts'[p] # posts[p])
              => (AppliedPostWrite /\ last'.target = p)
        /\ AppliedPostWrite
           => ( /\ last'.uid # Null
                /\ users[last'.uid] \in UserRole
                /\ TableEditDelete(users[last'.uid],
                                   posts[last'.target] = last'.uid) ) ]_vars

\* PostDetail.handleConfirmDelete of an author deleted that author's own post
C5_Witness ==
    /\ last.by = "handleConfirmDelete" /\ last.allowed
    /\ Stored(last.uid) /\ users[last.uid] = "author"
    /\ posts[last.target] = Absent

\* C6: EditPost and DeletePost are allowed exactly when the role is admin or
\* editor, or the role is author or contributor and the principal owns the
\* post, in the client helpers and in the storage rules.
C6_EditDeleteTable ==
    \A u \in Uids, a \in {"EditPost", "DeletePost"}, p \in PostIds :
        (users[u] \in UserRole /\ posts[p] # Absent)
        => LET t == TableEditDelete(users[u], posts[p] = u)
           IN  /\ evaluateClient(u, a, p, TRUE) <=> t
               /\ evaluateStorage(u, a, p) <=> t

\* the store denied an author's delete of a post owned by somebody else
C6_Witness ==
    /\ last.by = "request" /\ last.op = "DeletePost" /\ ~last.allowed
    /\ Stored(last.uid) /\ users[last.uid] = "author"
    /\ posts[last.target] \in Uids \ {last.uid}

\* C7: for a subscriber and for an unauthenticated principal every action
\* other than ReadPost and CreateComment is denied for every ownership value
\* by the client helpers and by the storage rules.
C7_LeastPrivilegeDenied ==
    \A u \in Principals, a \in ActionKinds \ {"CreateComment"}, p \in PostIds :
        (u = Null \/ users[u] = "subscriber")
        => /\ ~evaluateClient(u, a, p, TRUE)
           /\ ~evaluateStorage(u, a, p)

\* the store denied a subscriber's delete of a post that subscriber owns
C7_Witness ==
    /\ last.by = "request" /\ last.op = "DeletePost" /\ ~last.allowed
    /\ Stored(last.uid) /\ users[last.uid] = "subscriber"
    /\ posts[last.target] = last.uid

C8_SettingsAdminOnly ==
    [][ /\ ( \/ siteUpdatedBy' # siteUpdatedBy
             \/ ( /\ last'.by \in {"request", "handleSubmit"}
                  /\ last'.op = "WriteSiteConfig" /\ last'.allowed ) )
           => ( /\ last'.op = "WriteSiteConfig"
                /\ last'.uid # Null
                /\ users[last'.uid] = "admin" )
        /\ (last'.by = "handleSubmit" /\ last'.op = "WriteSiteConfig")
           => ( /\ settingsPage.isAdminUser
                /\ settingsPage.user # Null
                /\ settingsPage.flagFor = settingsPage.user ) ]_vars

\* C10: deleting a comment is allowed exactly for admin and editor, whoever
\* wrote the comment, and denied to every other principal, by the storage
\* rules and by Comments.handleDeleteComment.
C10_ModerateTable ==
    [][ /\ ( /\ last'.by \in {"request", "handleDeleteComment"}
             /\ last'.op = "ModerateComment" )
           => ( last'.allowed <=>
                  ( /\ last'.uid # Null
                    /\ users[last'.uid] \in {"admin", "editor"} ) )
        /\ last'.by = "handleDeleteComment"
           => ( /\ commentsPage.canModerate
                /\ authUser # Null
                /\ commentsPage.flagFor = authUser ) ]_vars

\* a step that takes a decision (a repeated identical decision changes
\* nothing and is a stuttering step)
Decided == last' # last

\* C11: reading a post is allowed to every principal, unauthenticated ones
\* included; creating a comment is allowed exactly when the requester is
\* authenticated, whatever the role; Comments.handleSubmit issues the write
\* only for a signed-in user, and a comment is stored only for an
\* authenticated requester.
C11_ReadAllCommentAuthenticated ==
    [][ Decided =>
        /\ last'.op = "ReadPost" => last'.allowed
        /\ ( /\ last'.by \in {"request", "handleSubmit"}
             /\ last'.op = "CreateComment" )
           => (last'.allowed <=> last'.uid # Null)
        /\ (last'.by = "handleSubmit" /\ last'.op = "CreateComment")
           => (commentsPage.user # Null /\ authUser # Null)
        /\ \A c \in CommentIds :
              (comments[c] = Absent /\ comments'[c] # Absent)
              => (last'.op = "CreateComment" /\ last'.uid # Null) ]_vars

\* Comments.handleSubmit of a subscriber stored that subscriber's comment
C11_Witness ==
    /\ last.by = "handleSubmit" /\ last.op = "CreateComment" /\ last.allowed
    /\ Stored(last.uid) /\ users[last.uid] = "subscriber"
    /\ comments[last.target] = last.uid

\* C12: profile resolution fails closed: when the profile read throws or no
\* record exists, getUserProfile returns null and isEditor, isAdmin,
\* canCreatePosts, canEditAnyPost, canEditOwnPosts and canModerateComments
\* each return false; no call whose read failed ever returns true.
C12_FailsClosed ==
    /\ \A u \in Uids, ok \in BOOLEAN :
          (~ok \/ users[u] = NoProfile)
          => /\ getUserProfile(u, ok) = NoRole
             /\ ~isEditor(u, ok)
             /\ ~isAdmin(u, ok)
             /\ ~canCreatePosts(u, ok)
             /\ ~canEditAnyPost(u, ok)
             /\ ~canEditOwnPosts(u, ok)
             /\ ~canModerateComments(u, ok)
    /\ ( \/ last.by = "helper:unavailable"
         \/ (last.by = "helper" /\ users[last.uid] = NoProfile) )
       => ~last.allowed

\* isAdmin of a stored admin returned false because the profile read threw
C12_Witness ==
    /\ last.by = "helper:unavailable" /\ last.op = "isAdmin"
    /\ Stored(last.uid) /\ users[last.uid] = "admin"
    /\ ~last.allowed

\* C13: a permission result computed for a principal is written into a page
\* flag only while that principal is still the session's user, so canEdit of
\* PostDetail is never true while the user is null or a principal the rule
\* table denies for the post.
C13_StaleResultsDiscarded ==
    [][ /\ (Decided /\ last'.by \in {"client", "client:unavailable"})
           => last'.uid = authUser
        /\ (detailPage'.mounted /\ detailPage'.canEdit)
           => ( /\ authUser' # Null
                /\ users[authUser'] \in UserRole
                /\ TableEditDelete(users[authUser'],
                                   detailPage'.post = authUser') ) ]_vars

\* C14: on EditPost canEdit is never true in a state where it was computed
\* without the post's resolved authorId, and whenever the edit form is
\* rendered and submittable the current principal's stored role and the
\* post's actual authorId permit the edit by the rule table.
C14_DecisionAfterBothResolved ==
    /\ (editPage.mounted /\ editPage.canEdit) => editPage.flagAuthor # Null
    /\ EditFormRendered
       => ( /\ authUser # Null
            /\ users[authUser] \in UserRole
            /\ posts[editPage.id] # Absent
            /\ TableEditDelete(users[authUser],
                               posts[editPage.id] = authUser) )

\* C15: a client EditPost decision taken while the post's owner is not
\* determined (postAuthorId not loaded, post not found) denies a principal
\* whose role has only the "own" right (author, contributor), and the
\* storage rule denies such a principal on a post that does not exist.
C15_UnknownOwnerDenied ==
    [][ /\ ( /\ Decided
             /\ last'.by \in {"client", "client:unavailable"}
             /\ last'.op = "EditPost"
             /\ editPage'.flagAuthor = Null
             /\ users[last'.uid] \in {"author", "contributor"} )
           => ~last'.allowed
        /\ \A u \in Uids, p \in PostIds :
              (users[u] \in {"author", "contributor"} /\ posts[p] = Absent)
              => ~allowPostUpdateDelete(u, p) ]_vars

\* the createUserProfile calls of principal u
CallsOf(u) == {call \in calls : call.uid = u}

C17_ExistingRecordUnchanged ==
    [][ \A u \in Uids :
            userFields[u] # NoFields => userFields'[u] = userFields[u] ]_vars

C19_ControlsOnlyForPermitted ==
    \A p \in PostIds :
        HomeShowsEditDelete(p)
        => ( /\ authUser # Null
             /\ users[authUser] \in UserRole
             /\ TableEditDelete(users[authUser], homePage.posts[p] = authUser) )

\* C20: the "Create Post" link of PostDetail is rendered only when the
\* signed-in user's stored role is admin, editor or author.
C20_CreateLinkOnlyForCreators ==
    DetailShowsCreatePost
    => ( /\ authUser # Null
         /\ users[authUser] \in {"admin", "editor", "author"} )

\* C21: a post delete issued by Home.handleDeletePost reaches the store only
\* when the client's own decision, for the signed-in principal, the action
\* DeletePost and that post, is allow at the moment of issuing.
C21_WritesPreValidated ==
    [][ (Decided /\ last'.by = "handleDeletePost")
           => ( /\ last'.uid # Null
                /\ posts[last'.target] # Absent
                /\ evaluateClient(last'.uid, "DeletePost", last'.target, TRUE) )
      ]_vars

\* C22: every post created by a request the storage rules permit is stored
\* with an authorId equal to the authenticated uid of the requester.
C22_OwnerIsCreator ==
    [][ ( /\ Decided /\ last'.by = "request" /\ last'.op = "CreatePost"
          /\ last'.allowed )
           => posts'[last'.target] = last'.uid
      ]_vars

\* C23: for an existing post, one requester and one store state, the
\* update/delete rule returns the same decision for every payload, whatever
\* authorId or role the payload asserts.
C23_DecisionIgnoresPayload ==
    \A u \in Principals : \A p \in PostIds :
        posts[p] # Absent =>
            \A a \in Principals : \A r \in UserRole \cup {NoRole} :
                evaluatePostWrite(Request(u, a, r), p)
                    <=> evaluatePostWrite(Request(u, Null, NoRole), p)

\* the store denied an update by an author or contributor of a post stored
\* under another authorId
C23_Witness ==
    /\ last.by = "request" /\ last.op = "EditPost" /\ ~last.allowed
    /\ Stored(last.uid) /\ users[last.uid] \in {"author", "contributor"}
    /\ posts[last.target] \notin {Absent, last.uid}

\* PostDetail shows a post to a signed-in user, the auth callback has been
\* delivered and no checkPermissions is in flight
DetailSettled ==
    /\ DetailRendered /\ detailPage.subscribed
    /\ detailPage.user # Null /\ detailPage.pending = {}

\* C24: on PostDetail, for one signed-in principal and one post, once the
\* auth callback and the post fetch have both completed and no resolution is
\* in flight, canEdit is the result of checkPermissions for that principal
\* and that post, canEditAny OR (canEditOwn AND uid = post.authorId),
\* whichever of the two completed first.
C24_OrderIndependent ==
    (DetailSettled /\ detailPage.flagFor \in {Null, detailPage.user})
       => /\ detailPage.flagFor = detailPage.user
          /\ detailPage.flagAuthor = detailPage.post
          /\ detailPage.canEdit
                => userCanEdit(detailPage.user, detailPage.post, TRUE, TRUE)
          /\ (last.by = "client" /\ last.uid = detailPage.user)
                => ( detailPage.canEdit
                       <=> userCanEdit(detailPage.user, detailPage.post,
                                       TRUE, TRUE) )

\* a contributor signed in after the post was shown, and canEdit settled to
\* true on the contributor's own post
C24_Witness ==
    /\ DetailSettled /\ detailPage.canEdit
    /\ detailPage.user = authUser
    /\ users[detailPage.user] = "contributor"
    /\ detailPage.post = detailPage.user
    /\ last.by = "client" /\ last.uid = detailPage.user

\* C25: a principal whose stored role is contributor can create posts, by
\* canCreatePosts and by the creation rule, and can edit their own posts.
C25_ContributorCreates ==
    \A u \in Uids :
        users[u] = "contributor"
           => /\ canCreatePosts(u, TRUE)
              /\ allowPostCreate(u)
              /\ canEditOwnPosts(u, TRUE)

\* C26: a call of getUserProfile or of a helper built on it (getUserRole,
\* isEditor, isAdmin, canCreatePosts, canEditAnyPost, canEditOwnPosts,
\* canModerateComments) leaves the store as it was, and creates no profile
\* record, whether the record exists, is absent, or the read fails.
C26_HelpersReadOnly ==
    [][ (last'.by \in {"helper", "helper:unavailable"} /\ Decided)
           => /\ users' = users
              /\ posts' = posts
              /\ comments' = comments
              /\ siteUpdatedBy' = siteUpdatedBy
      ]_vars

\* getUserRole returned null for a uid without a profile record, and the
\* record is still absent
C26_Witness ==
    /\ last.by = "helper" /\ last.op = "getUserRole" /\ ~last.allowed
    /\ users[last.uid] = NoProfile

\* C27: on EditPost, a role lookup that is in flight while the page shows
\* Loading... is eventually over: the page leaves Loading (checkingPermission
\* false, or it navigated away) even when the lookup itself never completes.
C27_LookupEventuallySettled ==
    ( /\ editPage.mounted /\ editPage.checkingPermission
      /\ editPage.pending # {} )
       ~> ( ~editPage.mounted \/ ~editPage.checkingPermission )

\* C28: for an authenticated principal without a stored profile record the
\* rules deny post create, post update and delete, comment delete and the
\* site settings write, the client helpers return false, and only comment
\* creation and reads remain allowed.
C28_NoProfileDenied ==
    \A u \in Uids :
        users[u] = NoProfile
           => /\ ~allowPostCreate(u)
              /\ \A p \in PostIds : ~allowPostUpdateDelete(u, p)
              /\ ~allowCommentDelete(u)
              /\ ~allowSiteWrite(u)
              /\ ~canCreatePosts(u, TRUE)
              /\ ~canEditAnyPost(u, TRUE)
              /\ ~canEditOwnPosts(u, TRUE)
              /\ ~canModerateComments(u, TRUE)
              /\ ~isAdmin(u, TRUE)
              /\ allowCommentCreate(u)
              /\ allowPostRead(u)

\* the store denied the deletion of a post by the principal its authorId
\* names, who has no profile record
C28_Witness ==
    /\ last.by = "request" /\ last.op = "DeletePost" /\ ~last.allowed
    /\ last.uid # Null /\ users[last.uid] = NoProfile
    /\ posts[last.target] = last.uid

C30_EditKeepsOwnership ==
    [][ (Decided /\ last'.by = "handleSubmit" /\ last'.op = "EditPost")
           => /\ posts' = posts
              /\ updateData \cap {"authorId", "authorName", "authorEmail",
                                  "createdAt"} = {}
              /\ updateData = {"title", "content", "updatedAt", "categories",
                               "tags", "featuredImage"}
      ]_vars

\* an admin or editor saved an edit of a post of another author, and the
\* post is still stored under that author
C30_Witness ==
    /\ last.by = "handleSubmit" /\ last.op = "EditPost" /\ last.allowed
    /\ last.uid # Null /\ users[last.uid] \in {"admin", "editor"}
    /\ posts[last.target] \notin {Absent, last.uid}

\* C31: when the setDoc of updateSiteSettings(partial, uid) is applied after
\* its read of the current settings succeeded, every stored field that
\* partial does not carry has the value it had in the store immediately
\* before the write, also when the updates of two admins interleave, and
\* updatedBy is uid.
C31_UnsetFieldsPreserved ==
    [][ ( /\ Decided /\ last'.by = "updateSiteSettings" /\ last'.allowed
          /\ siteFields.exists )
           => \A call \in calls :
                 (call.id = last'.target /\ call.stage = "setDoc"
                    /\ call.readOk)
                    => /\ \A f \in SettingsFields :
                             call.settings[f] = Unset
                                => siteFields'[f] = siteFields[f]
                       /\ siteUpdatedBy' = call.uid
      ]_vars

\* C32: while the SiteSettings page is shown with isAdminUser true, a user is
\* signed in and the flag is the isAdmin result resolved for that user: after
\* the auth state changed to another principal the flag of the previous one
\* does not remain.
C32_AdminFlagFollowsAuth ==
    (settingsPage.mounted /\ settingsPage.isAdminUser)
       => /\ settingsPage.user # Null
          /\ settingsPage.flagFor = settingsPage.user

\* C33: the value checkPermissions computes from its two separate profile
\* reads, canEditAny(r1) OR (canEditOwn(r2) AND own), equals the rule-table
\* decision for the role r1 seen by the first read or the one for the role
\* r2 seen by the second, with the same ownership, also when the role was
\* changed between the reads.
C33_TwoReadsConsistent ==
    \A call \in calls :
        call.stage = "done"
           => LET own == call.uid = call.authorId
              IN  \/ call.result <=> TableEditDelete(call.seenAny, own)
                  \/ call.result <=> TableEditDelete(call.seenOwn, own)

\* the first read saw subscriber and the second author, on the user's own
\* post: the value is the author's
C33_Witness ==
    \E call \in calls :
        /\ call.stage = "done"
        /\ call.seenAny = "subscriber" /\ call.seenOwn = "author"
        /\ call.uid = call.authorId
        /\ call.result

\* the place of a role in the chain subscriber, contributor, author, editor,
\* admin
Rank(role) ==
    CASE role = "subscriber" -> 1
      [] role = "contributor" -> 2
      [] role = "author" -> 3
      [] role = "editor" -> 4
      [] role = "admin" -> 5

\* C34: the permission sets form a chain: when the stored role of a user
\* moves up the chain subscriber, contributor, author, editor, admin, every
\* action on every post, owned or not, that the helpers or the rules allowed
\* to the user before is still allowed after; and in every state
\* canEditAnyPost implies canEditOwnPosts and canCreatePosts, isAdmin
\* implies isEditor, and the admin rule implies the admin-or-editor rule.
C34_PermissionChain ==
    [][ /\ \A u \in Uids :
              /\ canEditAnyPost(u, TRUE)
                    => (canEditOwnPosts(u, TRUE) /\ canCreatePosts(u, TRUE))
              /\ isAdmin(u, TRUE) => isEditor(u, TRUE)
              /\ allowSiteWrite(u) => allowCommentDelete(u)
        /\ \A u \in Uids :
              ( /\ users[u] \in UserRole /\ users'[u] \in UserRole
                /\ Rank(users[u]) < Rank(users'[u])
                /\ posts' = posts )
                 => \A a \in ActionKinds : \A p \in PostIds :
                       /\ evaluateStorage(u, a, p)
                             => evaluateStorage(u, a, p)'
                       /\ evaluateClient(u, a, p, TRUE)
                             => evaluateClient(u, a, p, TRUE)'
      ]_vars

\* the console moved the owner of a post up to editor
C34_Witness ==
    /\ last.by = "console" /\ last.op = "SetRole"
    /\ users[last.target] = "editor"
    /\ \E p \in PostIds : posts[p] = last.target

\* C35: under the production rules no update of an existing comment is
\* permitted, whatever the role of the requester and also for the comment's
\* author: a stored comment stays as created until a delete by an admin or
\* an editor removes it.
C35_CommentsImmutable ==
    [][ /\ (Decided /\ last'.op = "UpdateComment") => ~last'.allowed
        /\ \A c \in CommentIds :
              comments[c] # Absent
                 => \/ comments'[c] = comments[c]
                    \/ /\ comments'[c] = Absent
                       /\ last'.op = "ModerateComment" /\ last'.allowed
                       /\ last'.target = c
                       /\ last'.uid # Null
                       /\ users[last'.uid] \in {"admin", "editor"}
      ]_vars

\* the store denied an admin's update of a comment stored under the admin's
\* own uid, and the comment is as it was
C35_Witness ==
    /\ last.by = "request" /\ last.op = "UpdateComment" /\ ~last.allowed
    /\ last.uid # Null /\ users[last.uid] = "admin"
    /\ comments[last.target] = last.uid
====
